---- MODULE Spec2Model ----
(***************************************************************************)
(* A model of ts-loader's src/config.ts: locating a tsconfig file          *)
(* (findConfigFile), loading it and merging the loader's compilerOptions   *)
(* over it (getConfigFile), and parsing it through a host that appends     *)
(* .ts/.tsx suffixes to selected files (getConfigParseResult,              *)
(* getSuffixAppendingParseConfigHost).                                     *)
(*                                                                         *)
(* Paths are absolute POSIX paths, written as the sequence of their        *)
(* segments: <<>> is "/", <<"a","t">> is "/a/t".  File names of the        *)
(* directory listing are sequences too: <<"a","vue","ts">> is "a.vue.ts".  *)
(* An optional value is <<>> (undefined) or <<x>>.                         *)
(***************************************************************************)
EXTENDS Integers, Sequences, FiniteSets, TLC

VARIABLES
  files,             \* compiler.sys: the set of paths at which a file exists
  requestDir,        \* path.dirname(loader.resourcePath), as given
  configFileRef,     \* loaderOptions.configFile: [abs, segs]
  fpc,               \* position in findConfigFile
  curDir,            \* findConfigFile's requestDirPath, reassigned by the walk
  checks,            \* the arguments of compiler.sys.fileExists, in call order
  walked,            \* the directories the walk has tested, in order
  found,             \* findConfigFile's return value (optional path)
  diskConfig,        \* what compiler.readConfigFile returns for the found file
  callerOptions,     \* loaderOptions.compilerOptions
  compilerCompatible,
  lpc,               \* position in getConfigFile
  log,               \* the messages given to log.logInfo, in order
  configFile,        \* configFile.config.compilerOptions (optional map)
  configFileError,   \* optional formatted error
  appendTsSuffixTo,  \* loaderOptions.appendTsSuffixTo (patterns, by extension)
  appendTsxSuffixTo, \* loaderOptions.appendTsxSuffixTo
  listing,           \* the files of rootDir, in the order sys lists them
  version,           \* compiler.version: [major, minor, patch, pre]
  parsedOptions,     \* the options parseJsonConfigFileContent produces
  configFilePathArg, \* getConfigParseResult's configFilePath argument
  ppc,               \* position in getConfigParseResult
  host,              \* the host getSuffixAppendingParseConfigHost returned
  query,             \* the host query parseJsonConfigFileContent made
  baseCalls,         \* the calls that reached sys, in order
  queryResult,       \* what the host query returned
  resultOptions      \* configParseResult.options as returned

findVars == <<files, requestDir, configFileRef, fpc, curDir, checks, walked, found>>
loadVars == <<diskConfig, callerOptions, compilerCompatible, lpc, log, configFile,
              configFileError>>
parseVars == <<appendTsSuffixTo, appendTsxSuffixTo, listing, version, parsedOptions,
               configFilePathArg, ppc, host, query, baseCalls, queryResult,
               resultOptions>>
vars == <<findVars, loadVars, parseVars>>

None == <<>>
Some(x) == <<x>>

SeqsUpTo(S, n) == UNION {[1..k -> S] : k \in 0..n}
IsPrefix(p, q) == Len(p) <= Len(q) /\ SubSeq(q, 1, Len(p)) = p

(***************************************************************************)
(* Bounds.                                                                 *)
(***************************************************************************)
MaxDepth == 2      \* depth of the request directory
MaxRefLen == 2     \* segments of the config file reference
MaxFiles == 2      \* files that exist

RefSegs == {".", "..", "a", "t"}

\* "/", "/a", "/a/a", ...: the directory k levels down
Dir(k) == [i \in 1..k |-> "a"]
\* where a file may exist: "t" or "a" in a directory of the chain, one level
\* below the deepest request directory included
FilePaths == {Append(Dir(k), x) : k \in 0..(MaxDepth + 1), x \in {"t", "a"}}

(***************************************************************************)
(* Node's path module, on absolute POSIX paths.                            *)
(***************************************************************************)
RECURSIVE NormalizeFrom(_, _)
NormalizeFrom(stack, segs) ==
  IF segs = <<>> THEN stack
  ELSE LET s == Head(segs) IN
       NormalizeFrom(
         IF s = "." THEN stack
         ELSE IF s = ".." THEN (IF stack = <<>> THEN stack
                                ELSE SubSeq(stack, 1, Len(stack) - 1))
         ELSE Append(stack, s),
         Tail(segs))

Normalize(segs) == NormalizeFrom(<<>>, segs)

\* path.dirname: the root is its own parent
dirname(p) == IF p = <<>> THEN <<>> ELSE SubSeq(p, 1, Len(p) - 1)
\* path.join(dir, ref) and path.resolve(dir, ref) for a non-absolute ref:
\* concatenate, then normalise "." and ".."
join(dir, ref) == Normalize(dir \o ref.segs)
resolve(dir, ref) == Normalize(dir \o ref.segs)
isAbsolute(ref) == ref.abs
\* configFile.match(/^\.\.?(\/|\\)/) !== null: one or two dots, then a separator
MatchesRelative(ref) ==
  /\ Len(ref.segs) >= 2
  /\ ref.segs[1] \in {".", ".."}

\* compiler.sys.fileExists: the file system resolves the path it is given
fileExists(p) == Normalize(p) \in files

(***************************************************************************)
(* findConfigFile                                                          *)
(***************************************************************************)
FindReturn(r) ==
  /\ found' = r
  /\ fpc' = "returned"

\* lines 92-94: an absolute reference is tested as it is
FindAbsolute ==
  /\ fpc = "start"
  /\ isAbsolute(configFileRef)
  /\ checks' = Append(checks, configFileRef.segs)
  /\ FindReturn(IF fileExists(configFileRef.segs) THEN Some(configFileRef.segs) ELSE None)
  /\ UNCHANGED <<files, requestDir, configFileRef, curDir, walked, loadVars, parseVars>>

IsRelativeBranchMut(ref) == FALSE
\* line 99: the test that selects the explicitly relative branch
IsRelativeBranch(ref) == MatchesRelative(ref)

\* lines 99-101
FindRelative ==
  /\ fpc = "start"
  /\ ~isAbsolute(configFileRef)
  /\ IsRelativeBranch(configFileRef)
  /\ LET resolvedPath == resolve(requestDir, configFileRef) IN
       /\ checks' = Append(checks, resolvedPath)
       /\ FindReturn(IF fileExists(resolvedPath) THEN Some(resolvedPath) ELSE None)
  /\ UNCHANGED <<files, requestDir, configFileRef, curDir, walked, loadVars, parseVars>>

\* line 104: a bare name enters the loop
FindBareName ==
  /\ fpc = "start"
  /\ ~isAbsolute(configFileRef)
  /\ ~IsRelativeBranch(configFileRef)
  /\ fpc' = "walk"
  /\ UNCHANGED <<files, requestDir, configFileRef, curDir, checks, walked, found,
                 loadVars, parseVars>>

StopsNeverMut(dir) == FALSE
StopsBelowRootMut(dir) == dirname(dir) = <<>>
\* lines 110-111: parentPath === requestDirPath, tested after the current
\* directory was
StopsWalk(dir) == dirname(dir) = dir

\* lines 106-109: the file is in the current directory
WalkFound ==
  /\ fpc = "walk"
  /\ Len(checks) <= MaxDepth + 2
  /\ LET fileName == join(curDir, configFileRef) IN
       /\ fileExists(fileName)
       /\ checks' = Append(checks, fileName)
       /\ walked' = Append(walked, curDir)
       /\ FindReturn(Some(fileName))
  /\ UNCHANGED <<files, requestDir, configFileRef, curDir, loadVars, parseVars>>

\* lines 106-114: not here, and there is a parent to go to
WalkUp ==
  /\ fpc = "walk"
  /\ Len(checks) <= MaxDepth + 2
  /\ LET fileName == join(curDir, configFileRef) IN
       /\ ~fileExists(fileName)
       /\ ~StopsWalk(curDir)
       /\ checks' = Append(checks, fileName)
       /\ walked' = Append(walked, curDir)
       /\ curDir' = dirname(curDir)
  /\ UNCHANGED <<files, requestDir, configFileRef, fpc, found, loadVars, parseVars>>

\* lines 106-117: not here, and this is the root
WalkStop ==
  /\ fpc = "walk"
  /\ Len(checks) <= MaxDepth + 2
  /\ LET fileName == join(curDir, configFileRef) IN
       /\ ~fileExists(fileName)
       /\ StopsWalk(curDir)
       /\ checks' = Append(checks, fileName)
       /\ walked' = Append(walked, curDir)
       /\ FindReturn(None)
  /\ UNCHANGED <<files, requestDir, configFileRef, curDir, loadVars, parseVars>>

(***************************************************************************)
(* getConfigFile                                                           *)
(***************************************************************************)
Keys == {"a", "b", "c"}
FileVals == {1, 2}
CallerVals == {3, 4}
MapsOver(K, V) == UNION {[D -> V] : D \in SUBSET K}
EmptyMap == [k \in {} |-> 0]

\* Object.assign(target, s): the own keys of s are copied over those of target;
\* an undefined source is skipped
AssignOne(target, s) ==
  IF s = None THEN target
  ELSE [k \in DOMAIN target \cup DOMAIN s[1] |->
          IF k \in DOMAIN s[1] THEN s[1][k] ELSE target[k]]

RECURSIVE ObjectAssign(_, _)
\* Object.assign(target, ...sources), left to right
ObjectAssign(target, sources) ==
  IF sources = <<>> THEN target
  ELSE ObjectAssign(AssignOne(target, Head(sources)), Tail(sources))

MergeSwappedMut(fileOptions, loaderCompilerOptions) ==
  ObjectAssign(EmptyMap, <<Some(loaderCompilerOptions), fileOptions>>)
\* lines 61-65: Object.assign({}, configFile.config.compilerOptions,
\* loaderOptions.compilerOptions)
MergeCompilerOptions(fileOptions, loaderCompilerOptions) ==
  ObjectAssign(EmptyMap, <<fileOptions, Some(loaderCompilerOptions)>>)

\* utils.formatErrors: one formatted error for each diagnostic
formatErrors(diagnostics, file) ==
  [i \in 1..Len(diagnostics) |-> [diagnostic |-> diagnostics[i], file |-> file]]

\* lines 37-46: formatErrors([configFile.error], ...)[0] when the read reported an error
ConfigFileErrorOf(read, path) ==
  IF read.error # None
    THEN LET formatted == formatErrors(<<read.error[1]>>, path) IN
           IF formatted = <<>> THEN None ELSE Some(formatted[1])
    ELSE None

MergeAlwaysMut(error) == TRUE
\* line 60: configFileError === undefined
MergeRuns(error) == error = None

LogsAlwaysMut(compatible) == TRUE
\* line 48: without a config file the details are logged only for a compatible compiler
LogsDetails(compatible) == compatible

\* lines 28-58: the messages of one invocation
LogMessages ==
  IF found # None
    THEN IF compilerCompatible
           THEN <<[text |-> "details and path", path |-> found]>>
           ELSE <<[text |-> "Using config file at", path |-> found]>>
    ELSE IF LogsDetails(compilerCompatible)
           THEN <<[text |-> "details", path |-> None]>>
           ELSE <<>>

\* lines 35 and 52-57: the file as read, or the empty default
ReadOutcome ==
  IF found # None
    THEN diskConfig
    ELSE [compilerOptions |-> Some(EmptyMap), error |-> None]

\* lines 25-72, after findConfigFile has returned (line 20)
GetConfigFile ==
  /\ fpc = "returned"
  /\ lpc = "start"
  /\ LET read == ReadOutcome
         error == IF found # None THEN ConfigFileErrorOf(read, found[1]) ELSE None
     IN /\ log' = log \o LogMessages
        /\ configFileError' = error
        /\ configFile' =
             IF MergeRuns(error)
               THEN Some(MergeCompilerOptions(read.compilerOptions, callerOptions))
               ELSE read.compilerOptions
  /\ lpc' = "returned"
  /\ UNCHANGED <<findVars, diskConfig, callerOptions, compilerCompatible, parseVars>>

(***************************************************************************)
(* getSuffixAppendingParseConfigHost and getConfigParseResult              *)
(***************************************************************************)
MaxListing == 2    \* files in the listed directory
MaxPatterns == 1   \* patterns in each of appendTsSuffixTo and appendTsxSuffixTo

RealNames == {<<s, e>> : s \in {"a", "b"}, e \in {"vue", "ts"}}
               \cup {<<"a", "VUE">>, <<"a">>}
PatternExts == {"vue", "VUE", "ts", ""}
QueryNames == RealNames \cup {Append(n, "ts") : n \in RealNames}
ExtensionLists == {<<"ts">>, <<"tsx">>, <<"ts", "tsx">>}

Range(s) == {s[i] : i \in 1..Len(s)}

\* path.extname, without the dot: "" when the name has none
extname(name) == IF Len(name) > 1 THEN name[Len(name)] ELSE ""
\* String.prototype.toLowerCase on an extension
toLowerCase(e) == IF e = "VUE" THEN "vue" ELSE IF e = "TS" THEN "ts" ELSE e

\* a pattern of appendTsSuffixTo / appendTsxSuffixTo selects files by their
\* extension, as /\.vue$/ does
Matches(pattern, name) == extname(name) = pattern
\* utils.appendSuffixIfMatch
appendSuffixIfMatch(patterns, name, suffix) ==
  IF \E p \in patterns : Matches(p, name) THEN Append(name, suffix) ELSE name
\* utils.getPossiblyRenamedFilePath: a matching file gets ".ts" or ".tsx" appended
getPossiblyRenamedFilePath(name) ==
  appendSuffixIfMatch(appendTsxSuffixTo,
                      appendSuffixIfMatch(appendTsSuffixTo, name, "ts"), "tsx")
\* lines 181-183
transformFileName(rawFileName) == getPossiblyRenamedFilePath(rawFileName)
\* line 177: .map(transformFileName)
MapTransformFileName(names) == [i \in 1..Len(names) |-> transformFileName(names[i])]

\* compiler.sys over the listed directory
sysFileExists(name) == name \in Range(listing)
sysReadFile(name) == IF name \in Range(listing) THEN Some(name) ELSE None
\* sys.readDirectory(rootDir, extensions): without extensions every file, else
\* the files whose name ends in one of them, in listing order
sysReadDirectory(extensions) ==
  IF extensions = None THEN listing
  ELSE SelectSeq(listing, LAMBDA n : extname(n) \in Range(extensions[1]))

BaseCall(op, name, extensions) == [op |-> op, name |-> name, extensions |-> extensions]

WrapsAlwaysMut == TRUE
\* lines 148-153: the condition under which sys itself is not returned
Wraps == ~(Cardinality(appendTsSuffixTo) = 0 /\ Cardinality(appendTsxSuffixTo) = 0)

\* lines 128-131 and 148-179: the host is built and handed to the parser
GetSuffixAppendingParseConfigHost ==
  /\ ppc = "start"
  /\ host' = IF Wraps THEN "wrapped" ELSE "sys"
  /\ ppc' = "host"
  /\ UNCHANGED <<findVars, loadVars, appendTsSuffixTo, appendTsxSuffixTo, listing,
                 version, parsedOptions, configFilePathArg, query, baseCalls,
                 queryResult, resultOptions>>

QueryFrame ==
  /\ ppc' = "queried"
  /\ UNCHANGED <<findVars, loadVars, appendTsSuffixTo, appendTsxSuffixTo, listing,
                 version, parsedOptions, configFilePathArg, host, resultOptions>>

\* the argument mapArg's wrapper hands to the wrapped function (line 187)
MappedArg(x) == IF host = "wrapped" THEN transformFileName(x) ELSE x

\* line 157 (or sys.fileExists itself), called by the parser
HostFileExists ==
  /\ ppc = "host"
  /\ \E name \in QueryNames :
       /\ query' = [op |-> "fileExists", name |-> name, extensions |-> None]
       /\ baseCalls' = Append(baseCalls, BaseCall("fileExists", MappedArg(name), None))
       /\ queryResult' = sysFileExists(MappedArg(name))
  /\ QueryFrame

\* line 158 (or sys.readFile itself), called by the parser
HostReadFile ==
  /\ ppc = "host"
  /\ \E name \in QueryNames :
       /\ query' = [op |-> "readFile", name |-> name, extensions |-> None]
       /\ baseCalls' = Append(baseCalls, BaseCall("readFile", MappedArg(name), None))
       /\ queryResult' = sysReadFile(MappedArg(name))
  /\ QueryFrame

RECURSIVE CustomExtensionsFrom(_, _, _)
\* lines 161-173: the reduce over allFiles
CustomExtensionsFrom(exts, allFiles, extensions) ==
  IF allFiles = <<>> THEN exts
  ELSE LET fileName == Head(allFiles)
           renamed == transformFileName(fileName)
           ext == toLowerCase(extname(fileName))
       IN CustomExtensionsFrom(
            IF /\ renamed # fileName
               /\ toLowerCase(extname(renamed)) \in Range(extensions)
               /\ ext # ""
              THEN Append(exts, ext) ELSE exts,
            Tail(allFiles), extensions)

NoCustomExtensionsMut(extensions) == <<>>
\* lines 160-173
customExtensions(extensions) ==
  CustomExtensionsFrom(<<>>, sysReadDirectory(None), extensions)

\* lines 159-178 (or sys.readDirectory itself), called by the parser
HostReadDirectory ==
  /\ ppc = "host"
  /\ \E extensions \in ExtensionLists :
       /\ query' = [op |-> "readDirectory", name |-> <<>>, extensions |-> Some(extensions)]
       /\ IF host = "wrapped"
            THEN LET asked == extensions \o customExtensions(extensions) IN
                   /\ baseCalls' = baseCalls \o
                        <<BaseCall("readDirectory", <<>>, None),
                          BaseCall("readDirectory", <<>>, Some(asked))>>
                   /\ queryResult' = MapTransformFileName(sysReadDirectory(Some(asked)))
            ELSE /\ baseCalls' = Append(baseCalls,
                                        BaseCall("readDirectory", <<>>, Some(extensions)))
                 /\ queryResult' = sysReadDirectory(Some(extensions))
  /\ QueryFrame

\* semver: the release triple is compared first; on equal triples a
\* prerelease version is lower than the release
SemverCompare(a, b) ==
  IF a.major # b.major THEN (IF a.major > b.major THEN 1 ELSE -1)
  ELSE IF a.minor # b.minor THEN (IF a.minor > b.minor THEN 1 ELSE -1)
  ELSE IF a.patch # b.patch THEN (IF a.patch > b.patch THEN 1 ELSE -1)
  ELSE IF a.pre = b.pre THEN 0
  ELSE IF a.pre THEN -1 ELSE 1

Threshold == [major |-> 3, minor |-> 5, patch |-> 0, pre |-> FALSE]

StampsAboveOnlyMut(v) == SemverCompare(v, Threshold) > 0
\* line 134: semver.gte(compiler.version, '3.5.0')
StampsConfigFilePath(v) == SemverCompare(v, Threshold) >= 0

\* lines 134-141
VersionGate ==
  /\ ppc = "queried"
  /\ resultOptions' =
       IF StampsConfigFilePath(version)
         THEN Some(AssignOne(AssignOne(EmptyMap, Some(parsedOptions)),
                             Some([k \in {"configFilePath"} |-> configFilePathArg])))
         ELSE Some(parsedOptions)
  /\ ppc' = "returned"
  /\ UNCHANGED <<findVars, loadVars, appendTsSuffixTo, appendTsxSuffixTo, listing,
                 version, parsedOptions, configFilePathArg, host, query, baseCalls,
                 queryResult>>

(***************************************************************************)
(* Initial states and specifications                                       *)
(***************************************************************************)
FindIdle ==
  /\ files = {}
  /\ requestDir = <<>>
  /\ configFileRef = [abs |-> FALSE, segs |-> <<"t">>]
  /\ fpc = "idle"
  /\ curDir = <<>>
  /\ checks = <<>>
  /\ walked = <<>>
  /\ found = None

LoadIdle ==
  /\ diskConfig = [compilerOptions |-> None, error |-> None]
  /\ callerOptions = EmptyMap
  /\ compilerCompatible = TRUE
  /\ lpc = "idle"
  /\ log = <<>>
  /\ configFile = None
  /\ configFileError = None

ParseIdle ==
  /\ appendTsSuffixTo = {}
  /\ appendTsxSuffixTo = {}
  /\ listing = <<>>
  /\ version = Threshold
  /\ parsedOptions = EmptyMap
  /\ configFilePathArg = None
  /\ ppc = "idle"
  /\ host = "none"
  /\ query = [op |-> "none", name |-> <<>>, extensions |-> None]
  /\ baseCalls = <<>>
  /\ queryResult = None
  /\ resultOptions = None

\* a file system holds no file at, or above, a directory that is in use
IsFileSystem(fs, dir) ==
  /\ \A p \in fs : ~IsPrefix(p, dir)
  /\ \A p, q \in fs : p # q => ~IsPrefix(p, q)

FindStart(dirs, refs, fss) ==
  /\ requestDir \in dirs
  /\ configFileRef \in refs
  /\ files \in fss
  /\ IsFileSystem(files, requestDir)
  /\ fpc = "start"
  /\ curDir = requestDir
  /\ checks = <<>>
  /\ walked = <<>>
  /\ found = None

References ==
  {[abs |-> a, segs |-> s] : a \in BOOLEAN, s \in SeqsUpTo(RefSegs, MaxRefLen) \ {<<>>}}
FileSystems == {fs \in SUBSET FilePaths : Cardinality(fs) <= MaxFiles}
RequestDirs == {Dir(k) : k \in 0..MaxDepth}

InitFind ==
  /\ FindStart(RequestDirs, References, FileSystems)
  /\ LoadIdle
  /\ ParseIdle

NextFind ==
  \/ FindAbsolute
  \/ FindRelative
  \/ FindBareName
  \/ WalkFound
  \/ WalkUp
  \/ WalkStop

SpecFind == InitFind /\ [][NextFind]_vars

InitLoad ==
  /\ FindStart({<<"a">>},
               {[abs |-> FALSE, segs |-> <<"t">>], [abs |-> TRUE, segs |-> <<"a", "t">>],
                [abs |-> FALSE, segs |-> <<"..", "t">>]},
               SUBSET {<<"a", "t">>, <<"t">>})
  /\ diskConfig \in [compilerOptions : {None} \cup {Some(m) : m \in MapsOver(Keys, FileVals)},
                     error : {None, Some("diagnostic")}]
  /\ callerOptions \in MapsOver(Keys, CallerVals)
  /\ compilerCompatible \in BOOLEAN
  /\ lpc = "start"
  /\ log = <<>>
  /\ configFile = None
  /\ configFileError = None
  /\ ParseIdle

NextLoad ==
  \/ NextFind
  \/ GetConfigFile

SpecLoad == InitLoad /\ [][NextLoad]_vars

PatternSets == {S \in SUBSET PatternExts : Cardinality(S) <= MaxPatterns}
Listings ==
  {l \in SeqsUpTo(RealNames, MaxListing) : \A i, j \in 1..Len(l) : i # j => l[i] # l[j]}

ParseStart ==
  /\ ppc = "start"
  /\ host = "none"
  /\ query = [op |-> "none", name |-> <<>>, extensions |-> None]
  /\ baseCalls = <<>>
  /\ queryResult = None
  /\ resultOptions = None

InitHost ==
  /\ FindIdle
  /\ LoadIdle
  /\ appendTsSuffixTo \in PatternSets
  /\ appendTsxSuffixTo \in PatternSets
  /\ listing \in Listings
  /\ version \in {Threshold, [Threshold EXCEPT !.minor = 4]}
  /\ parsedOptions = EmptyMap
  /\ configFilePathArg = Some(<<"a", "t">>)
  /\ ParseStart

NextParse ==
  \/ GetSuffixAppendingParseConfigHost
  \/ HostFileExists
  \/ HostReadFile
  \/ HostReadDirectory
  \/ VersionGate

SpecHost == InitHost /\ [][NextParse]_vars

Versions == [major : 2..4, minor : 4..6, patch : 0..1, pre : BOOLEAN]

InitParse ==
  /\ FindIdle
  /\ LoadIdle
  /\ appendTsSuffixTo \in {{}, {"vue"}}
  /\ appendTsxSuffixTo = {}
  /\ listing = <<<<"a", "vue">>, <<"b", "ts">>>>
  /\ version \in Versions
  /\ parsedOptions \in MapsOver({"a", "b"}, FileVals)
  /\ configFilePathArg \in {None, Some(<<"a", "t">>)}
  /\ ParseStart

SpecParse == InitParse /\ [][NextParse]_vars

(***************************************************************************)
(* Properties                                                              *)
(***************************************************************************)
\* the reference is a bare name: not absolute, and not starting with "./" or "../"
BareReference ==
  /\ ~configFileRef.abs
  /\ ~(Len(configFileRef.segs) >= 2 /\ configFileRef.segs[1] \in {".", ".."})

\* the chain requestDir, parent(requestDir), ..., root, by length
Ancestor(k) == SubSeq(requestDir, 1, k)
\* the lengths of the ancestors in which the reference names an existing file
Holders ==
  {k \in 0..Len(requestDir) : Normalize(Ancestor(k) \o configFileRef.segs) \in files}
Nearest == CHOOSE k \in Holders : \A j \in Holders : j <= k

\* C1: for a bare-name reference findConfigFile returns join(A, reference) for
\* the nearest directory A of the chain requestDir, parent, ..., root in which
\* that path exists, and undefined exactly when no directory of the chain
\* (the root included) holds the file.
C1_NearestAncestor ==
  (fpc = "returned" /\ BareReference) =>
    IF Holders = {}
      THEN found = None
      ELSE found = Some(Normalize(Ancestor(Nearest) \o configFileRef.segs))

\* the file is found in a proper ancestor after the nearer directories failed
C1_Witness ==
  /\ fpc = "returned"
  /\ BareReference
  /\ found # None
  /\ Len(walked) >= 2
  /\ Nearest < Len(requestDir)

\* C9: for an absolute or an explicitly relative reference findConfigFile makes
\* exactly one existence check and walks no directory; it returns the
\* reference itself (absolute) or resolve(requestDir, reference) (relative) if
\* and only if that path exists, and undefined otherwise.
C9_SingleCheckNoWalk ==
  (fpc = "returned" /\ ~BareReference) =>
    LET target == IF configFileRef.abs
                    THEN configFileRef.segs
                    ELSE Normalize(requestDir \o configFileRef.segs)
    IN /\ checks = <<target>>
       /\ walked = <<>>
       /\ found = (IF Normalize(target) \in files THEN Some(target) ELSE None)

\* a relative reference misses although an ancestor holds a file at that
\* relative path: no ancestor was looked in
C9_Witness ==
  /\ fpc = "returned"
  /\ ~configFileRef.abs
  /\ ~BareReference
  /\ found = None
  /\ \E k \in 0..(Len(requestDir) - 1) :
       Normalize(Ancestor(k) \o configFileRef.segs) \in files

\* C10: the bare-name walk terminates: every iteration returns, or moves to a
\* strictly shorter parent, or stops at the root; so at most depth + 1
\* existence checks are made and no directory is tested twice.
C10_WalkBounded ==
  BareReference =>
    /\ Len(checks) = Len(walked)
    /\ Len(walked) <= Len(requestDir) + 1
    /\ \A i \in 1..(Len(walked) - 1) : Len(walked[i + 1]) < Len(walked[i])
    /\ \A i, j \in 1..Len(walked) : i # j => walked[i] # walked[j]
    /\ fpc = "walk" => ENABLED (WalkFound \/ WalkUp \/ WalkStop)

\* the walk went from a directory two levels deep up to the root and stopped
C10_Witness ==
  /\ fpc = "returned"
  /\ BareReference
  /\ found = None
  /\ Len(requestDir) >= 2
  /\ Len(walked) = Len(requestDir) + 1

\* the compilerOptions of the file that was read, or of the empty default
BaseOptions ==
  IF found # None /\ diskConfig.compilerOptions # None
    THEN diskConfig.compilerOptions[1]
    ELSE EmptyMap

\* C2: without a configFileError the returned compilerOptions are the shallow
\* merge of the file's (or the empty default's) with the caller's: every caller
\* key has the caller's value, every key of the file alone keeps the file's
\* value, and there is no other key.
C2_CallerPrecedentMerge ==
  (lpc = "returned" /\ configFileError = None) =>
    /\ configFile # None
    /\ LET merged == configFile[1] IN
         /\ DOMAIN merged = DOMAIN BaseOptions \cup DOMAIN callerOptions
         /\ \A k \in DOMAIN callerOptions : merged[k] = callerOptions[k]
         /\ \A k \in DOMAIN BaseOptions \ DOMAIN callerOptions : merged[k] = BaseOptions[k]

\* file {a:1, b:2} and caller {b:3, c:4} give {a:1, b:3, c:4}
C2_Witness ==
  /\ lpc = "returned"
  /\ found # None
  /\ configFileError = None
  /\ diskConfig.compilerOptions = Some(("a" :> 1) @@ ("b" :> 2))
  /\ callerOptions = ("b" :> 3) @@ ("c" :> 4)
  /\ configFile = Some(("a" :> 1) @@ ("b" :> 3) @@ ("c" :> 4))

\* C3: configFileError is set exactly when a config file was found and
\* readConfigFile reported an error for it; then the merge does not run and
\* the returned compilerOptions are the file's raw ones.
C3_ErrorSkipsMerge ==
  lpc = "returned" =>
    /\ (configFileError # None) <=> (found # None /\ diskConfig.error # None)
    /\ configFileError # None => configFile = diskConfig.compilerOptions

\* a failed parse whose raw options lack a key the caller supplies
C3_Witness ==
  /\ lpc = "returned"
  /\ configFileError # None
  /\ diskConfig.compilerOptions # None
  /\ DOMAIN diskConfig.compilerOptions[1] # {}
  /\ \E k \in DOMAIN callerOptions : k \notin DOMAIN diskConfig.compilerOptions[1]
  /\ \E k \in DOMAIN callerOptions : k \in DOMAIN diskConfig.compilerOptions[1]

\* C4 as stated: every invocation of getConfigFile logs exactly one message,
\* whether or not a file was found and whatever compilerCompatible is.
C4_AlwaysOneMessage ==
  lpc = "returned" => Len(log) = 1

\* C4, amended: getConfigFile logs exactly one message, except that it logs
\* none when no config file was found and compilerCompatible is false.
C4_OneMessageUnlessNothingToSay ==
  lpc = "returned" =>
    Len(log) = (IF found = None /\ ~compilerCompatible THEN 0 ELSE 1)

\* one message also when the found file fails to parse
C4_Witness ==
  /\ lpc = "returned"
  /\ found # None
  /\ diskConfig.error # None
  /\ ~compilerCompatible
  /\ Len(log) = 1

Answered == ppc \in {"queried", "returned"}
RulesActive == appendTsSuffixTo # {} \/ appendTsxSuffixTo # {}
\* the name a rule gives the file: the file's name with ".ts" or ".tsx" added
Rewritten(name) == transformFileName(name) # name
\* the real files of which the name is the synthetic name
RealOf(name) == {r \in RealNames : Rewritten(r) /\ transformFileName(r) = name}

\* C5: with a rule active, fileExists and readFile of a synthetic name ask sys
\* for the real file (so fileExists is true whenever the real file exists),
\* and a name that matches no rule is passed to sys unchanged.
C5_SyntheticNameReachesRealFile ==
  (Answered /\ RulesActive /\ query.op \in {"fileExists", "readFile"}) =>
    /\ \A r \in RealOf(query.name) :
         /\ baseCalls = <<BaseCall(query.op, r, None)>>
         /\ (query.op = "fileExists" /\ r \in Range(listing)) => queryResult = TRUE
    /\ (RealOf(query.name) = {} /\ ~Rewritten(query.name)) =>
         baseCalls = <<BaseCall(query.op, query.name, None)>>

Requested == Range(query.extensions[1])

RECURSIVE DiscoverableIn(_)
\* the names under which the files are discoverable, in listing order: a file's
\* own name when its extension is requested, its synthetic name when a rule
\* rewrites it to a name whose extension is requested
DiscoverableIn(fs) ==
  IF fs = <<>> THEN <<>>
  ELSE LET f == Head(fs) IN
       (IF extname(f) \in Requested THEN <<f>> ELSE <<>>)
         \o (IF Rewritten(f) /\ extname(transformFileName(f)) \in Requested
               THEN <<transformFileName(f)>> ELSE <<>>)
         \o DiscoverableIn(Tail(fs))

\* C6 as stated: with a rule active, wrapped readDirectory returns, in the
\* base order and without dropping or deduplicating, exactly the files
\* discoverable under the requested extensions.
C6_ListsDiscoverable ==
  (Answered /\ RulesActive /\ query.op = "readDirectory") =>
    /\ queryResult = DiscoverableIn(listing)
    /\ \A i \in 1..Len(queryResult) : extname(queryResult[i]) \in Requested

\* no rewritten file has an extension that is itself requested, and a file
\* rewritten to a requested synthetic extension has a non-empty lower-case one
RewritesForeignFiles ==
  \A f \in Range(listing) :
    Rewritten(f) =>
      /\ extname(f) \notin Requested
      /\ extname(transformFileName(f)) \in Requested =>
           (extname(f) # "" /\ toLowerCase(extname(f)) = extname(f))

\* C6, amended: the same, provided no file a rule rewrites has an extension
\* that is itself requested, and every file rewritten to a name with a
\* requested extension has a non-empty, lower-case extension of its own.
C6_ListsDiscoverableForeign ==
  (Answered /\ RulesActive /\ query.op = "readDirectory" /\ RewritesForeignFiles) =>
    /\ queryResult = DiscoverableIn(listing)
    /\ \A i \in 1..Len(queryResult) : extname(queryResult[i]) \in Requested

\* "a.vue" and "b.ts", rule .vue -> ".vue.ts", extensions [".ts"]
C6_Witness ==
  /\ Answered
  /\ appendTsSuffixTo = {"vue"}
  /\ appendTsxSuffixTo = {}
  /\ listing = <<<<"a", "vue">>, <<"b", "ts">>>>
  /\ query.op = "readDirectory"
  /\ query.extensions = Some(<<"ts">>)
  /\ queryResult = <<<<"a", "vue", "ts">>, <<"b", "ts">>>>

\* C7: with both appendTsSuffixTo and appendTsxSuffixTo empty the parser's host
\* is sys itself: every query reaches sys once, with the same arguments, and
\* returns what sys returns (readDirectory makes no unfiltered listing pass).
C7_NoRulesIsBase ==
  (Answered /\ ~RulesActive) =>
    /\ host = "sys"
    /\ baseCalls = <<BaseCall(query.op, query.name, query.extensions)>>
    /\ query.op = "fileExists" => queryResult = (query.name \in Range(listing))
    /\ query.op = "readFile" =>
         queryResult = (IF query.name \in Range(listing) THEN Some(query.name) ELSE None)
    /\ query.op = "readDirectory" =>
         queryResult = SelectSeq(listing, LAMBDA n : extname(n) \in Requested)

\* a readDirectory without rules, over a directory that holds a ".vue" file
C7_Witness ==
  /\ Answered
  /\ ~RulesActive
  /\ query.op = "readDirectory"
  /\ \E i \in 1..Len(listing) : extname(listing[i]) = "vue"
  /\ Len(baseCalls) = 1
  /\ queryResult # <<>>

\* the version is 3.5.0 or later, in semver's order
AtLeast350 ==
  \/ version.major > 3
  \/ version.major = 3 /\ version.minor > 5
  \/ version.major = 3 /\ version.minor = 5 /\ (version.patch > 0 \/ ~version.pre)

\* C8: getConfigParseResult adds configFilePath (the path it was given) to the
\* returned options if and only if the compiler version is at least 3.5.0;
\* for a lower version the options are the parser's, with no such key.
C8_ConfigFilePathGate ==
  ppc = "returned" =>
    /\ resultOptions # None
    /\ LET options == resultOptions[1] IN
         /\ ("configFilePath" \in DOMAIN options) <=> AtLeast350
         /\ AtLeast350 => options["configFilePath"] = configFilePathArg
         /\ \A k \in DOMAIN parsedOptions : options[k] = parsedOptions[k]
         /\ DOMAIN options \ {"configFilePath"} = DOMAIN parsedOptions

\* exactly 3.5.0, with a path given
C8_Witness ==
  /\ ppc = "returned"
  /\ version = Threshold
  /\ configFilePathArg # None
  /\ parsedOptions # EmptyMap
  /\ resultOptions[1]["configFilePath"] = configFilePathArg

====
